---- MODULE Spec2Model ----
(***************************************************************************)
(* Propolis CI GitHub Action: trigger a remote test batch, poll it until   *)
(* every run is terminal, report.  The module models main() of             *)
(* src/index.ts in its latest revision (nonBlocking, 20 minute timeout,    *)
(* AGENT_ERROR) and, under SpecEarly, the earlier revision kept in the     *)
(* same file (no timeout, summary write not awaited).                      *)
(*                                                                         *)
(* One action is one continuation of the async function: it runs from the  *)
(* point where an awaited promise settles to the next await (or return or  *)
(* throw).  The clock (Date.now()) advances only while main is suspended.  *)
(***************************************************************************)
EXTENDS Integers, Sequences, FiniteSets, TLC

\* ---- bounds of the model -------------------------------------------------
MaxRuns == 2
MaxPolls == 3
\* round trip of the trigger POST, in ms
TriggerLatency == 250

\* ---- program constants ---------------------------------------------------
timeoutMs == 20 * 60 * 1000
sleepMs == 10000

\* ---- environment inputs --------------------------------------------------
Undefined == "<undefined>"

\* latency of an awaited operation beyond its minimum: none, or long enough
\* to carry the elapsed time from 0 to one sleep short of the ceiling
LongDelay == timeoutMs - sleepMs
Delays == {0, LongDelay}

ApiKeyInputs == {"", "input-key"}
ApiKeyEnvs == {Undefined, "env-key"}

Statuses ==
  {"QUEUED", "RUNNING", "NEEDS_MANUAL_REVIEW", "COMPLETED", "FAILED",
   "AGENT_ERROR", "CANCELLED"}

TestRun(i, s) ==
  [runId |-> "r" \o ToString(i), friendlyName |-> "suite-" \o ToString(i),
   status |-> s, url |-> "https://x/" \o ToString(i)]

Snapshots ==
  UNION {{[i \in 1..n |-> TestRun(i, ss[i])] : ss \in [1..n -> Statuses]} :
         n \in 0..MaxRuns}

\* how an HTTP call settles: rejected with an error, or resolved with data
HttpErrors == {"Network Error", "Request failed with status code 500"}

Rejected(call, message) ==
  [call |-> call, ok |-> FALSE, error |-> message, batchRunId |-> Undefined]

Resolved(call, id) ==
  [call |-> call, ok |-> TRUE, error |-> "", batchRunId |-> id]

NoResponse == Resolved("none", Undefined)

TriggerResults ==
  {Rejected("trigger", e) : e \in HttpErrors} \cup
  {Resolved("trigger", id) : id \in {Undefined, "", "b1"}}

\* ---- state -----------------------------------------------------------------
VARIABLES
  pc,               \* where main is suspended, or "start" / "rejected" / "done"
  apiKey,           \* const apiKey
  nonBlocking,      \* const nonBlocking
  now,              \* Date.now()
  startTime,        \* const startTime
  pollCount,        \* let pollCount
  previousStatuses, \* const previousStatuses: Map runId -> status
  testRuns,         \* const testRuns of the current cycle
  err,              \* message of the error main rejected with
  httpResult,       \* how the most recent HTTP call settled
  triggerRequests,  \* POST requests issued, by their X-API-Key header
  pollRequests,     \* number of GET requests issued
  batchRunIdOutput, \* core.setOutput('batchRunId', ...)
  lastGroup,        \* the core.group log block of the current cycle
  summaryPending,   \* core.summary.write() in flight: the table being written
  summary,          \* tables written to the job summary
  warnings,         \* number of core.warning calls
  failed,           \* core.setFailed calls, in order
  info              \* final core.info messages (success / non-blocking)

vars ==
  <<pc, apiKey, nonBlocking, now, startTime, pollCount, previousStatuses,
    testRuns, err, httpResult, triggerRequests, pollRequests,
    batchRunIdOutput, lastGroup,
    summaryPending, summary, warnings, failed, info>>

NoGroup == [poll |-> 0, counts |-> <<>>, lines |-> <<>>]

Init ==
  /\ pc = "start"
  /\ apiKey = Undefined
  /\ nonBlocking = FALSE
  /\ now = 0
  /\ startTime = 0
  /\ pollCount = 0
  /\ previousStatuses = <<>>
  /\ testRuns = <<>>
  /\ err = ""
  /\ httpResult = NoResponse
  /\ triggerRequests = <<>>
  /\ pollRequests = 0
  /\ batchRunIdOutput = Undefined
  /\ lastGroup = NoGroup
  /\ summaryPending = <<>>
  /\ summary = <<>>
  /\ warnings = 0
  /\ failed = <<>>
  /\ info = <<>>

\* ---- pure helpers ----------------------------------------------------------
\* a || b on strings
OrElse(a, b) == IF a # "" THEN a ELSE b

\* the check narrowed to v === undefined
Falsy_OnlyUndefined(v) == v = Undefined

\* !v
Falsy(v) == v \in {Undefined, ""}

statusIcon(status) ==
  CASE status = "QUEUED" -> "hourglass"
    [] status \in {"RUNNING", "NEEDS_MANUAL_REVIEW"} -> "runner"
    [] status = "COMPLETED" -> "check"
    [] status = "FAILED" -> "cross"
    [] status = "AGENT_ERROR" -> "robot"
    [] OTHER -> ""

displayStatus(status) ==
  IF status = "NEEDS_MANUAL_REVIEW" THEN "RUNNING" ELSE status

\* NEEDS_MANUAL_REVIEW taken for a finished run
TerminalStatuses_WithManualReview ==
  {"COMPLETED", "FAILED", "AGENT_ERROR", "NEEDS_MANUAL_REVIEW"}

TerminalStatuses == {"COMPLETED", "FAILED", "AGENT_ERROR"}

StatusesOf(runs) == [i \in DOMAIN runs |-> runs[i].status]

CountWhere(statuses, S) == Len(SelectSeq(statuses, LAMBDA s : s \in S))

\* counters that are not reset between cycles: the runs recorded in earlier
\* cycles are counted again
Counts_Accumulated(statuses) ==
  LET before(S) ==
        Cardinality({id \in DOMAIN previousStatuses : previousStatuses[id] \in S})
  IN [queued |-> CountWhere(statuses, {"QUEUED"}) + before({"QUEUED"}),
      running |-> CountWhere(statuses, {"RUNNING", "NEEDS_MANUAL_REVIEW"})
                    + before({"RUNNING", "NEEDS_MANUAL_REVIEW"}),
      completed |-> CountWhere(statuses, {"COMPLETED"}) + before({"COMPLETED"}),
      failed |-> CountWhere(statuses, {"FAILED"}) + before({"FAILED"}),
      agentError |-> CountWhere(statuses, {"AGENT_ERROR"})
                       + before({"AGENT_ERROR"})]

Counts(statuses) ==
  [queued |-> CountWhere(statuses, {"QUEUED"}),
   running |-> CountWhere(statuses, {"RUNNING", "NEEDS_MANUAL_REVIEW"}),
   completed |-> CountWhere(statuses, {"COMPLETED"}),
   failed |-> CountWhere(statuses, {"FAILED"}),
   agentError |-> CountWhere(statuses, {"AGENT_ERROR"})]

LogLine(t) ==
  [icon |-> statusIcon(t.status), name |-> t.friendlyName,
   status |-> displayStatus(t.status),
   link |-> IF t.status \in {"COMPLETED", "FAILED", "AGENT_ERROR"}
            THEN t.url ELSE ""]

LogLines(runs) == [i \in DOMAIN runs |-> LogLine(runs[i])]

\* the previousStatuses.set call left out
SetAll_Noop(map, runs) == map

\* previousStatuses.set(t.runId, t.status) for every run, in order
SetAll(map, runs) ==
  LET ids == {runs[i].runId : i \in DOMAIN runs}
      last(id) == CHOOSE i \in DOMAIN runs :
                    /\ runs[i].runId = id
                    /\ \A j \in DOMAIN runs : runs[j].runId = id => j <= i
  IN [id \in (DOMAIN map) \cup ids |->
        IF id \in ids THEN runs[last(id)].status ELSE map[id]]

\* the terminal set of the earlier revisions, without AGENT_ERROR
allDone_NoAgentError(statuses) ==
  \A i \in DOMAIN statuses : statuses[i] \in {"COMPLETED", "FAILED"}

\* some() in place of every()
allDone_Some(statuses) ==
  \E i \in DOMAIN statuses : statuses[i] \in TerminalStatuses

\* an empty list of runs taken for "nothing has finished yet"
allDone_NonEmpty(statuses) ==
  /\ Len(statuses) > 0
  /\ \A i \in DOMAIN statuses : statuses[i] \in TerminalStatuses

\* done decided as "no run is still pending"
allDone_NotPending(statuses) ==
  \A i \in DOMAIN statuses :
    statuses[i] \notin {"QUEUED", "RUNNING", "NEEDS_MANUAL_REVIEW"}

allDone(statuses) ==
  \A i \in DOMAIN statuses : statuses[i] \in TerminalStatuses

SummaryRow(t) ==
  [icon |-> statusIcon(t.status), name |-> t.friendlyName,
   status |-> displayStatus(t.status), link |-> t.url]

SummaryTable(runs) == [i \in DOMAIN runs |-> SummaryRow(runs[i])]

\* AGENT_ERROR counted as a failure
failedTests_WithAgentError(runs) ==
  SelectSeq(runs, LAMBDA t : t.status \in {"FAILED", "AGENT_ERROR"})

failedTests(runs) == SelectSeq(runs, LAMBDA t : t.status = "FAILED")
passedTests(runs) == SelectSeq(runs, LAMBDA t : t.status = "COMPLETED")
agentErrorTests(runs) == SelectSeq(runs, LAMBDA t : t.status = "AGENT_ERROR")

\* the report lines of the earlier revisions, which name the run by runId
FailureReport_ByRunId(tests) ==
  [kind |-> "suites-failed", text |-> "The following test suites failed:",
   lines |-> [i \in DOMAIN tests |->
                [name |-> tests[i].runId, url |-> tests[i].url]]]

FailureReport(tests) ==
  [kind |-> "suites-failed", text |-> "The following test suites failed:",
   lines |-> [i \in DOMAIN tests |->
                [name |-> tests[i].friendlyName, url |-> tests[i].url]]]

TimeoutMessage ==
  [kind |-> "timeout", text |-> "Test execution timed out after 20 minutes.",
   lines |-> <<>>]

ActionFailed(message) ==
  [kind |-> "action-failed", text |-> message, lines |-> <<>>]

\* the success line of the earlier revisions, without the agent-error note
SuccessMessage_NoAgentNote(runs) ==
  [kind |-> "passed", passed |-> Len(passedTests(runs)),
   notesAgentErrors |-> FALSE, agentErrors |-> 0]

SuccessMessage(runs) ==
  [kind |-> "passed", passed |-> Len(passedTests(runs)),
   notesAgentErrors |-> Len(agentErrorTests(runs)) > 0,
   agentErrors |-> Len(agentErrorTests(runs))]

NonBlockingMessage ==
  [kind |-> "non-blocking", passed |-> 0, notesAgentErrors |-> FALSE,
   agentErrors |-> 0]

\* the ceiling taken in the wrong unit
TimeoutExceeded_WrongUnit(t, start) == t - start > timeoutMs * 1000

\* the loop of the earlier revisions, which never times out
TimeoutExceeded_Never(t, start) == FALSE

\* the ceiling tested with >= instead of >
TimeoutExceeded_NonStrict(t, start) == t - start >= timeoutMs

TimeoutExceeded(t, start) == t - start > timeoutMs

\* ---- actions of the latest revision -----------------------------------------
\* main() up to the await of the trigger POST
Start ==
  /\ pc = "start"
  /\ \E input \in ApiKeyInputs, env \in ApiKeyEnvs, nb \in BOOLEAN :
       /\ apiKey' = OrElse(input, env)
       /\ nonBlocking' = nb
  /\ triggerRequests' = Append(triggerRequests, apiKey')
  /\ pc' = "triggering"
  /\ UNCHANGED <<now, startTime, pollCount, previousStatuses, testRuns, err,
                 httpResult, pollRequests, batchRunIdOutput, lastGroup, summaryPending,
                 summary, warnings, failed, info>>

\* main throws (or an awaited promise rejects) with this message
Throw(message) ==
  /\ err' = message
  /\ pc' = "rejected"

\* top of while (true): timeout check, then the next GET is issued
LoopTop(count, start) ==
  IF TimeoutExceeded(now', start)
  THEN /\ warnings' = warnings + 1
       /\ failed' = Append(failed, TimeoutMessage)
       /\ pc' = "done"
       /\ pollCount' = count
       /\ pollRequests' = pollRequests
  ELSE /\ count < MaxPolls
       /\ pollCount' = count + 1
       /\ pollRequests' = pollRequests + 1
       /\ pc' = "polling"
       /\ UNCHANGED <<warnings, failed>>

TriggerRejected(res) ==
  /\ ~res.ok
  /\ Throw(res.error)
  /\ UNCHANGED <<startTime, pollCount, pollRequests, batchRunIdOutput,
                 warnings, failed, info>>

TriggerMissingId(res) ==
  /\ res.ok
  /\ Falsy(res.batchRunId)
  /\ Throw("Missing batchRunId in trigger response")
  /\ UNCHANGED <<startTime, pollCount, pollRequests, batchRunIdOutput,
                 warnings, failed, info>>

NonBlockingReturn(res) ==
  /\ res.ok
  /\ ~Falsy(res.batchRunId)
  /\ nonBlocking
  /\ batchRunIdOutput' = res.batchRunId
  /\ info' = Append(info, NonBlockingMessage)
  /\ pc' = "done"
  /\ UNCHANGED <<startTime, pollCount, pollRequests, warnings, failed, err>>

\* the nonBlocking early return left out
EnterPollLoop_IgnoresNonBlocking(res) ==
  /\ res.ok
  /\ ~Falsy(res.batchRunId)
  /\ batchRunIdOutput' = res.batchRunId
  /\ startTime' = now'
  /\ LoopTop(0, startTime')
  /\ UNCHANGED <<err, info>>

EnterPollLoop(res) ==
  /\ res.ok
  /\ ~Falsy(res.batchRunId)
  /\ ~nonBlocking
  /\ batchRunIdOutput' = res.batchRunId
  /\ startTime' = now'
  /\ LoopTop(0, startTime')
  /\ UNCHANGED <<err, info>>

\* the trigger POST settles; main runs to its next await
TriggerResponse ==
  /\ pc = "triggering"
  /\ now' = now + TriggerLatency
  /\ \E res \in TriggerResults :
       /\ httpResult' = res
       /\ \/ TriggerRejected(res)
          \/ TriggerMissingId(res)
          \/ NonBlockingReturn(res)
          \/ EnterPollLoop(res)
  /\ UNCHANGED <<apiKey, nonBlocking, previousStatuses, testRuns,
                 triggerRequests, lastGroup, summaryPending, summary>>

\* a rejected GET swallowed and treated as "still running"
PollRejected_StillRunning(e) ==
  /\ httpResult' = Rejected("poll", e)
  /\ pc' = "sleeping"
  /\ UNCHANGED <<err, previousStatuses, testRuns, lastGroup, summaryPending>>

PollRejected(e) ==
  /\ httpResult' = Rejected("poll", e)
  /\ Throw(e)
  /\ UNCHANGED <<previousStatuses, testRuns, lastGroup, summaryPending>>

PollResolved(snap) ==
  /\ httpResult' = Resolved("poll", Undefined)
  /\ testRuns' = snap
  /\ lastGroup' = [poll |-> pollCount, counts |-> Counts(StatusesOf(snap)),
                   lines |-> LogLines(snap)]
  /\ previousStatuses' = SetAll(previousStatuses, snap)
  /\ IF ~allDone(StatusesOf(snap))
     THEN /\ pc' = "sleeping"
          /\ UNCHANGED summaryPending
     ELSE /\ pc' = "writingSummary"
          /\ summaryPending' = <<SummaryTable(snap)>>
  /\ UNCHANGED err

\* the poll GET settles; main runs to the sleep or to the summary write
PollResponse ==
  /\ pc = "polling"
  /\ \E d \in Delays : now' = now + d
  /\ \/ \E e \in HttpErrors : PollRejected(e)
     \/ \E snap \in Snapshots : PollResolved(snap)
  /\ UNCHANGED <<apiKey, nonBlocking, startTime, pollCount, triggerRequests,
                 pollRequests, batchRunIdOutput, summary, warnings, failed,
                 info>>

\* sleep(10000) resolves, no earlier than 10 s later; continue
SleepDone ==
  /\ pc = "sleeping"
  /\ \E d \in Delays : now' = now + sleepMs + d
  /\ testRuns' = <<>>
  /\ lastGroup' = NoGroup
  /\ LoopTop(pollCount, startTime)
  /\ UNCHANGED <<apiKey, nonBlocking, startTime, previousStatuses, err,
                 httpResult, triggerRequests, batchRunIdOutput,
                 summaryPending, summary, info>>

\* the return after setFailed left out
Classify_NoReturn(runs) ==
  /\ info' = Append(info, SuccessMessage(runs))
  /\ failed' = IF Len(failedTests(runs)) > 0
               THEN Append(failed, FailureReport(failedTests(runs)))
               ELSE failed

\* classification of the final snapshot and the outcome
Classify(runs) ==
  IF Len(failedTests(runs)) > 0
  THEN /\ failed' = Append(failed, FailureReport(failedTests(runs)))
       /\ UNCHANGED info
  ELSE /\ info' = Append(info, SuccessMessage(runs))
       /\ UNCHANGED failed

\* the awaited core.summary.write() completes; outcome; return
SummaryWritten ==
  /\ pc = "writingSummary"
  /\ \E d \in Delays : now' = now + d
  /\ summary' = summary \o summaryPending
  /\ summaryPending' = <<>>
  /\ Classify(testRuns)
  /\ pc' = "done"
  /\ UNCHANGED <<apiKey, nonBlocking, startTime, pollCount, previousStatuses,
                 testRuns, err, httpResult, triggerRequests, pollRequests,
                 batchRunIdOutput, lastGroup, warnings>>

\* main().catch
Catch ==
  /\ pc = "rejected"
  /\ failed' = Append(failed, ActionFailed(err))
  /\ pc' = "done"
  /\ UNCHANGED <<apiKey, nonBlocking, now, startTime, pollCount,
                 previousStatuses, testRuns, err, httpResult,
                 triggerRequests, pollRequests, batchRunIdOutput, lastGroup,
                 summaryPending, summary, warnings, info>>

Next ==
  \/ Start
  \/ TriggerResponse
  \/ PollResponse
  \/ SleepDone
  \/ SummaryWritten
  \/ Catch

Spec == Init /\ [][Next]_vars

\* every pending operation settles: the HTTP calls return, the timer of the
\* sleep fires, the summary write completes, and the continuation runs
SpecFair == Spec /\ WF_vars(Next)

\* ---- the earlier revision (src/index.ts, second half) ------------------------
\* no nonBlocking, no timeout, no AGENT_ERROR, and core.summary...write() is
\* called without await: main goes on to the outcome while the write is in
\* flight.
statusIconEarly(status) ==
  CASE status = "QUEUED" -> "hourglass"
    [] status = "RUNNING" -> "runner"
    [] status = "COMPLETED" -> "check"
    [] status = "FAILED" -> "cross"
    [] OTHER -> ""

LogLineEarly(t) ==
  [icon |-> statusIconEarly(t.status), name |-> t.friendlyName,
   status |-> t.status, link |-> t.url]

allDoneEarly(statuses) ==
  \A i \in DOMAIN statuses : statuses[i] \in {"COMPLETED", "FAILED"}

SummaryRowEarly(t) ==
  [icon |-> statusIconEarly(t.status), name |-> t.friendlyName,
   status |-> t.status, link |-> t.url]

FailureReportEarly(tests) ==
  [kind |-> "suites-failed", text |-> "The following test suites failed:",
   lines |-> [i \in DOMAIN tests |->
                [name |-> tests[i].runId, url |-> tests[i].url]]]

SuccessMessageEarly(runs) ==
  [kind |-> "passed", passed |-> Len(passedTests(runs)),
   notesAgentErrors |-> FALSE, agentErrors |-> 0]

EarlyStart ==
  /\ pc = "start"
  /\ \E input \in ApiKeyInputs, env \in ApiKeyEnvs :
       apiKey' = OrElse(input, env)
  /\ triggerRequests' = Append(triggerRequests, apiKey')
  /\ pc' = "triggering"
  /\ UNCHANGED <<nonBlocking, now, startTime, pollCount, previousStatuses,
                 testRuns, err, httpResult, pollRequests, batchRunIdOutput,
                 lastGroup, summaryPending, summary, warnings, failed, info>>

\* the next GET is issued
EarlyLoopTop(count) ==
  /\ count < MaxPolls
  /\ pollCount' = count + 1
  /\ pollRequests' = pollRequests + 1
  /\ pc' = "polling"

EarlyTriggerResponse ==
  /\ pc = "triggering"
  /\ now' = now + TriggerLatency
  /\ \E res \in TriggerResults :
       /\ httpResult' = res
       /\ \/ /\ ~res.ok
             /\ Throw(res.error)
             /\ UNCHANGED <<pollCount, pollRequests, batchRunIdOutput>>
          \/ /\ res.ok
             /\ Falsy(res.batchRunId)
             /\ Throw("Missing batchRunId in trigger response")
             /\ UNCHANGED <<pollCount, pollRequests, batchRunIdOutput>>
          \/ /\ res.ok
             /\ ~Falsy(res.batchRunId)
             /\ batchRunIdOutput' = res.batchRunId
             /\ EarlyLoopTop(0)
             /\ UNCHANGED err
  /\ UNCHANGED <<apiKey, nonBlocking, startTime, previousStatuses, testRuns,
                 triggerRequests, lastGroup, summaryPending, summary,
                 warnings, failed, info>>

EarlyClassify(runs) ==
  IF Len(failedTests(runs)) > 0
  THEN /\ failed' = Append(failed, FailureReportEarly(failedTests(runs)))
       /\ UNCHANGED info
  ELSE /\ info' = Append(info, SuccessMessageEarly(runs))
       /\ UNCHANGED failed

EarlyPollResolved(snap) ==
  /\ httpResult' = Resolved("poll", Undefined)
  /\ testRuns' = snap
  /\ lastGroup' = [poll |-> pollCount, counts |-> <<>>,
                   lines |-> [i \in DOMAIN snap |-> LogLineEarly(snap[i])]]
  /\ IF ~allDoneEarly(StatusesOf(snap))
     THEN /\ pc' = "sleeping"
          /\ UNCHANGED <<summaryPending, failed, info>>
     ELSE /\ summaryPending' = <<[i \in DOMAIN snap |-> SummaryRowEarly(snap[i])]>>
          /\ EarlyClassify(snap)
          /\ pc' = "done"
  /\ UNCHANGED err

\* the poll GET settles; main runs to the sleep or through the outcome
EarlyPollResponse ==
  /\ pc = "polling"
  /\ \E d \in Delays : now' = now + d
  /\ \/ \E e \in HttpErrors :
          /\ httpResult' = Rejected("poll", e)
          /\ Throw(e)
          /\ UNCHANGED <<testRuns, lastGroup, summaryPending, failed, info>>
     \/ \E snap \in Snapshots : EarlyPollResolved(snap)
  /\ UNCHANGED <<apiKey, nonBlocking, startTime, pollCount, previousStatuses,
                 triggerRequests, pollRequests, batchRunIdOutput, summary,
                 warnings>>

EarlySleepDone ==
  /\ pc = "sleeping"
  /\ \E d \in Delays : now' = now + sleepMs + d
  /\ testRuns' = <<>>
  /\ lastGroup' = NoGroup
  /\ EarlyLoopTop(pollCount)
  /\ UNCHANGED <<apiKey, nonBlocking, startTime, previousStatuses, err,
                 httpResult, triggerRequests, batchRunIdOutput,
                 summaryPending, summary, warnings, failed, info>>

\* the write that was not awaited completes, after main has returned
EarlySummaryWriteCompletes ==
  /\ pc = "done"
  /\ summaryPending # <<>>
  /\ \E d \in Delays : now' = now + d
  /\ summary' = summary \o summaryPending
  /\ summaryPending' = <<>>
  /\ UNCHANGED <<pc, apiKey, nonBlocking, startTime, pollCount,
                 previousStatuses, testRuns, err, httpResult, triggerRequests,
                 pollRequests, batchRunIdOutput, lastGroup, warnings, failed,
                 info>>

NextEarly ==
  \/ EarlyStart
  \/ EarlyTriggerResponse
  \/ EarlyPollResponse
  \/ EarlySleepDone
  \/ EarlySummaryWriteCompletes
  \/ Catch

SpecEarly == Init /\ [][NextEarly]_vars

\* ---- the change-logging variant (unnamed/part_002) ---------------------------
\* as the earlier revision, but a run is logged only when its status is not
\* the one recorded for it in previousStatuses, and the summary write is
\* awaited. The variant never reads the clock.
statusIconChange(status) ==
  CASE status = "QUEUED" -> "hourglass"
    [] status = "RUNNING" -> "runner"
    [] status = "COMPLETED" -> "check"
    [] status = "FAILED" -> "cross"
    [] OTHER -> ""

\* Map.prototype.get
MapGet(map, id) == IF id \in DOMAIN map THEN map[id] ELSE Undefined

LogLineChange(t) ==
  [icon |-> statusIconChange(t.status), name |-> t.friendlyName,
   status |-> t.status]

\* every run logged in every cycle
changedRuns_All(map, runs) == runs

\* testRuns.filter((t) => previousStatuses.get(t.runId) !== t.status)
changedRuns(map, runs) ==
  LET changed(t) == MapGet(map, t.runId) # t.status
  IN SelectSeq(runs, changed)

allDoneChange(statuses) ==
  \A i \in DOMAIN statuses : statuses[i] \in {"COMPLETED", "FAILED"}

SummaryRowChange(t) ==
  [icon |-> statusIconChange(t.status), name |-> t.friendlyName,
   status |-> t.status, link |-> t.url]

FailureReportChange(tests) ==
  [kind |-> "suites-failed", text |-> "The following test suites failed:",
   lines |-> [i \in DOMAIN tests |->
                [name |-> tests[i].runId, url |-> tests[i].url]]]

SuccessMessageChange(runs) ==
  [kind |-> "passed", passed |-> Len(passedTests(runs)),
   notesAgentErrors |-> FALSE, agentErrors |-> 0]

ChangeStart ==
  /\ pc = "start"
  /\ \E input \in ApiKeyInputs, env \in ApiKeyEnvs :
       apiKey' = OrElse(input, env)
  /\ triggerRequests' = Append(triggerRequests, apiKey')
  /\ pc' = "triggering"
  /\ UNCHANGED <<nonBlocking, now, startTime, pollCount, previousStatuses,
                 testRuns, err, httpResult, pollRequests, batchRunIdOutput,
                 lastGroup, summaryPending, summary, warnings, failed, info>>

\* pollCount += 1 and the next GET is issued
ChangeLoopTop(count) ==
  /\ count < MaxPolls
  /\ pollCount' = count + 1
  /\ pollRequests' = pollRequests + 1
  /\ pc' = "polling"

ChangeTriggerResponse ==
  /\ pc = "triggering"
  /\ now' = now + TriggerLatency
  /\ \E res \in TriggerResults :
       /\ httpResult' = res
       /\ \/ /\ ~res.ok
             /\ Throw(res.error)
             /\ UNCHANGED <<pollCount, pollRequests, batchRunIdOutput>>
          \/ /\ res.ok
             /\ Falsy(res.batchRunId)
             /\ Throw("Missing batchRunId in trigger response")
             /\ UNCHANGED <<pollCount, pollRequests, batchRunIdOutput>>
          \/ /\ res.ok
             /\ ~Falsy(res.batchRunId)
             /\ batchRunIdOutput' = res.batchRunId
             /\ ChangeLoopTop(0)
             /\ UNCHANGED err
  /\ UNCHANGED <<apiKey, nonBlocking, startTime, previousStatuses, testRuns,
                 triggerRequests, lastGroup, summaryPending, summary,
                 warnings, failed, info>>

\* the snapshot is logged (changed runs only) and recorded; then the sleep or
\* the summary write
ChangePollResolved(snap) ==
  /\ httpResult' = Resolved("poll", Undefined)
  /\ testRuns' = snap
  /\ LET changed == changedRuns(previousStatuses, snap)
     IN /\ lastGroup' = [poll |-> pollCount, counts |-> <<>>,
                         lines |-> [i \in DOMAIN changed |->
                                      LogLineChange(changed[i])]]
        /\ previousStatuses' = SetAll(previousStatuses, changed)
  /\ IF ~allDoneChange(StatusesOf(snap))
     THEN /\ pc' = "sleeping"
          /\ UNCHANGED summaryPending
     ELSE /\ pc' = "writingSummary"
          /\ summaryPending' =
               <<[i \in DOMAIN snap |-> SummaryRowChange(snap[i])]>>
  /\ UNCHANGED err

ChangePollResponse ==
  /\ pc = "polling"
  /\ \/ \E e \in HttpErrors :
          /\ httpResult' = Rejected("poll", e)
          /\ Throw(e)
          /\ UNCHANGED <<previousStatuses, testRuns, lastGroup,
                         summaryPending>>
     \/ \E snap \in Snapshots : ChangePollResolved(snap)
  /\ UNCHANGED <<apiKey, nonBlocking, now, startTime, pollCount,
                 triggerRequests, pollRequests, batchRunIdOutput, summary,
                 warnings, failed, info>>

\* sleep(10000) resolves; continue. testRuns and lastGroup keep the snapshot
\* and the lines of the cycle that ended, until the next response.
ChangeSleepDone ==
  /\ pc = "sleeping"
  /\ now' = now + sleepMs
  /\ ChangeLoopTop(pollCount)
  /\ UNCHANGED <<apiKey, nonBlocking, startTime, previousStatuses, testRuns,
                 err, httpResult, triggerRequests, batchRunIdOutput,
                 lastGroup, summaryPending, summary, warnings, failed, info>>

ChangeClassify(runs) ==
  IF Len(failedTests(runs)) > 0
  THEN /\ failed' = Append(failed, FailureReportChange(failedTests(runs)))
       /\ UNCHANGED info
  ELSE /\ info' = Append(info, SuccessMessageChange(runs))
       /\ UNCHANGED failed

\* the awaited core.summary.write() completes; outcome; return
ChangeSummaryWritten ==
  /\ pc = "writingSummary"
  /\ summary' = summary \o summaryPending
  /\ summaryPending' = <<>>
  /\ ChangeClassify(testRuns)
  /\ pc' = "done"
  /\ UNCHANGED <<apiKey, nonBlocking, now, startTime, pollCount,
                 previousStatuses, testRuns, err, httpResult,
                 triggerRequests, pollRequests, batchRunIdOutput, lastGroup,
                 warnings>>

ChangeCatch ==
  /\ pc = "rejected"
  /\ failed' = Append(failed, ActionFailed(err))
  /\ pc' = "done"
  /\ UNCHANGED <<apiKey, nonBlocking, now, startTime, pollCount,
                 previousStatuses, testRuns, err, httpResult,
                 triggerRequests, pollRequests, batchRunIdOutput, lastGroup,
                 summaryPending, summary, warnings, info>>

NextChange ==
  \/ ChangeStart
  \/ ChangeTriggerResponse
  \/ ChangePollResponse
  \/ ChangeSleepDone
  \/ ChangeSummaryWritten
  \/ ChangeCatch

SpecChange == Init /\ [][NextChange]_vars

\* ---- vocabulary of the claims -----------------------------------------------
HasStatus(runs, S) == \E i \in DOMAIN runs : runs[i].status \in S
OnlyStatus(runs, S) == \A i \in DOMAIN runs : runs[i].status \in S
Elapsed == now - startTime

\* the loop has reached DONE: the summary write was started
ReachedDone == summaryPending # <<>> \/ summary # <<>>

\* the invocation ended by the timeout branch
TimedOut == pc = "done" /\ warnings = 1 /\ failed = <<TimeoutMessage>>

\* ---- C1 ---------------------------------------------------------------------
\* C1: when a poll response's snapshot has every run in {COMPLETED, FAILED,
\* AGENT_ERROR}, the loop goes to DONE in that same step, and from DONE on no
\* poll request is issued any more.
C1_TerminalSnapshotEndsPolling ==
  /\ [][(pc = "polling" /\ httpResult'.ok
          /\ OnlyStatus(testRuns', {"COMPLETED", "FAILED", "AGENT_ERROR"}))
        => (pc' = "writingSummary" /\ pollRequests' = pollRequests)]_vars
  /\ [][(pc \in {"writingSummary", "done"})
        => (pc' \in {"writingSummary", "done"}
            /\ pollRequests' = pollRequests)]_vars

C1_Witness ==
  /\ pc = "done"
  /\ Len(summary) = 1
  /\ pollRequests = 2
  /\ HasStatus(testRuns, {"AGENT_ERROR"})

\* ---- C2 ---------------------------------------------------------------------
\* C2: when the loop has reached DONE and the invocation has ended, it is
\* marked failed iff at least one run of the final snapshot is FAILED
\* (AGENT_ERROR does not count), for every order of the runs.
C2_FailedIffSomeRunFailed ==
  (pc = "done" /\ ReachedDone)
    => ((failed # <<>>) <=> HasStatus(testRuns, {"FAILED"}))

C2_Witness ==
  /\ pc = "done"
  /\ ReachedDone
  /\ Len(testRuns) = 2
  /\ testRuns[1].status = "AGENT_ERROR"
  /\ testRuns[2].status = "FAILED"
  /\ failed # <<>>

\* ---- C3 ---------------------------------------------------------------------
\* C3 as stated: whenever the elapsed time has exceeded the ceiling before a
\* fully terminal snapshot is observed, no results table is produced, i.e. at
\* the moment a fully terminal snapshot is observed and its table write is
\* started the elapsed time is within the ceiling.
C3_AsStated == pc = "writingSummary" => Elapsed <= 1200000

\* C3 amended: when a cycle begins (the sleep has resolved) with the elapsed
\* time above the ceiling, the invocation ends TIMED_OUT at once - a warning
\* and one failed mark, no poll request - and a timed-out invocation has no
\* results table, whatever the earlier snapshots held.
C3_TimeoutAtCycleStart ==
  /\ [][(pc = "sleeping" /\ now' - startTime > 1200000)
        => (/\ pc' = "done"
            /\ warnings' = warnings + 1
            /\ failed' = Append(failed, TimeoutMessage)
            /\ pollRequests' = pollRequests
            /\ summary' = <<>> /\ summaryPending' = <<>>)]_vars
  /\ [][(pc' = "done" /\ warnings' > 0)
        => (summary' = <<>> /\ summaryPending' = <<>> /\ info' = <<>>
            /\ failed' = <<TimeoutMessage>>)]_vars

C3_Witness ==
  /\ TimedOut
  /\ summary = <<>>
  /\ "r1" \in DOMAIN previousStatuses
  /\ previousStatuses["r1"] = "RUNNING"

\* ---- C4 ---------------------------------------------------------------------
\* C4 as stated: after a snapshot with a non-terminal status observed while
\* the elapsed time is below the ceiling (main is in the sleep), the next step
\* comes at least 10 s later and issues another poll request.
C4_AsStated ==
  [][(pc = "sleeping" /\ Elapsed < 1200000)
      => (now' - now >= 10000 /\ pollRequests' = pollRequests + 1)]_vars

\* C4 amended: a snapshot with a non-terminal status always sends main into
\* the sleep without a poll request; the sleep lasts at least 10 s; when it
\* resolves another poll request is issued unless the elapsed time is then
\* above the ceiling, in which case the invocation ends TIMED_OUT.
C4_WaitThenPollOrTimeOut ==
  /\ [][(pc = "polling" /\ httpResult'.ok
          /\ ~OnlyStatus(testRuns', {"COMPLETED", "FAILED", "AGENT_ERROR"}))
        => (pc' = "sleeping" /\ pollRequests' = pollRequests
            /\ summaryPending' = <<>>)]_vars
  /\ [][(pc = "sleeping")
        => /\ now' - now >= 10000
           /\ IF now' - startTime > 1200000
              THEN pc' = "done" /\ pollRequests' = pollRequests
              ELSE pc' = "polling" /\ pollRequests' = pollRequests + 1]_vars

C4_Witness ==
  /\ pc = "polling"
  /\ pollRequests = 2
  /\ Elapsed >= 10000
  /\ Elapsed < 1200000

\* ---- C5 ---------------------------------------------------------------------
\* C5: with nonBlocking set, once the trigger call has returned a batchRunId
\* the invocation is over: no poll request, no results table, no setFailed.
C5_NonBlockingNeverPolls ==
  (nonBlocking /\ httpResult.call # "none" /\ httpResult.ok
   /\ httpResult.batchRunId \notin {Undefined, ""})
    => /\ pc = "done"
       /\ pollRequests = 0
       /\ summary = <<>> /\ summaryPending = <<>>
       /\ failed = <<>>
       /\ batchRunIdOutput = httpResult.batchRunId

C5_Witness ==
  /\ nonBlocking
  /\ pc = "done"
  /\ batchRunIdOutput = "b1"
  /\ info = <<NonBlockingMessage>>

\* ---- C6 ---------------------------------------------------------------------
\* C6: when neither the apiKey input nor PROPOLIS_API_KEY is set, main aborts
\* before any network call: no trigger request and no poll request is issued,
\* and the invocation is marked failed.
C6_MissingKeyAbortsBeforeNetwork ==
  (pc # "start" /\ apiKey = Undefined)
    => (triggerRequests = <<>> /\ pollRequests = 0)

\* ---- C7 ---------------------------------------------------------------------
\* C7: when the trigger call is rejected or resolves without a batchRunId, the
\* batchRunId output is not set, no poll request is issued, and the invocation
\* ends marked failed, once, with that error's message.
C7_TriggerFailureAborts ==
  (httpResult.call = "trigger"
   /\ (~httpResult.ok \/ httpResult.batchRunId \in {Undefined, ""}))
    => /\ pc \in {"rejected", "done"}
       /\ batchRunIdOutput = Undefined
       /\ pollRequests = 0
       /\ info = <<>> /\ summary = <<>> /\ summaryPending = <<>>
       /\ pc = "done" =>
            failed = <<ActionFailed(IF httpResult.ok
                                    THEN "Missing batchRunId in trigger response"
                                    ELSE httpResult.error)>>

C7_Witness ==
  /\ pc = "done"
  /\ httpResult = Resolved("trigger", "")
  /\ Len(failed) = 1

\* ---- C8 ---------------------------------------------------------------------
\* C8: when a poll request is rejected, main does not sleep or poll again:
\* no later poll request, no results table, no success message, and the
\* invocation ends marked failed, once, with that error's message.
C8_PollFailureIsFatal ==
  /\ [][(httpResult'.call = "poll" /\ ~httpResult'.ok)
        => /\ pc' \in {"rejected", "done"}
           /\ info' = <<>> /\ summary' = <<>> /\ summaryPending' = <<>>
           /\ pc' = "done" => failed' = <<ActionFailed(httpResult'.error)>>]_vars
  /\ [][(httpResult.call = "poll" /\ ~httpResult.ok)
        => (pollRequests' = pollRequests /\ httpResult' = httpResult)]_vars

C8_Witness ==
  /\ pc = "done"
  /\ httpResult = Rejected("poll", "Network Error")
  /\ pollRequests = 2
  /\ Len(failed) = 1

\* ---- C9 ---------------------------------------------------------------------
\* a failure path, told from what the environment did and the final snapshot
FailurePathOccurred ==
  \/ ~httpResult.ok
  \/ httpResult.call = "trigger" /\ httpResult.batchRunId \in {Undefined, ""}
  \/ httpResult.call = "poll" /\ httpResult.ok /\ ~ReachedDone
       /\ Elapsed > 1200000
  \/ ReachedDone /\ HasStatus(testRuns, {"FAILED"})

C10_TableWrittenBeforeOutcome ==
  /\ Len(summary) + Len(summaryPending) <= 1
  /\ ReachedDone =>
       LET table == (summary \o summaryPending)[1]
       IN /\ OnlyStatus(testRuns, {"COMPLETED", "FAILED", "AGENT_ERROR"})
          /\ Len(table) = Len(testRuns)
          /\ \A i \in DOMAIN table :
               /\ table[i].name = testRuns[i].friendlyName
               /\ table[i].link = testRuns[i].url
  /\ (ReachedDone /\ (failed # <<>> \/ info # <<>>))
       => (summaryPending = <<>> /\ Len(summary) = 1)

\* ---- C11 --------------------------------------------------------------------
\* the indices of the runs of a snapshot whose status is in S
IndicesWith(runs, S) == {i \in DOMAIN runs : runs[i].status \in S}

\* the failure report has exactly one line per FAILED run, carrying that
\* run's label (taken by Label) and URL, and no other line
ReportsExactlyFailed(report, runs, Label(_)) ==
  /\ Len(report.lines) = Cardinality(IndicesWith(runs, {"FAILED"}))
  /\ \A i \in IndicesWith(runs, {"FAILED"}) :
       Cardinality({k \in DOMAIN report.lines :
                      /\ report.lines[k].name = Label(runs[i])
                      /\ report.lines[k].url = runs[i].url}) = 1
  /\ \A k \in DOMAIN report.lines :
       \E i \in IndicesWith(runs, {"FAILED"}) :
         /\ report.lines[k].name = Label(runs[i])
         /\ report.lines[k].url = runs[i].url

RunIdOf(t) == t.runId
FriendlyNameOf(t) == t.friendlyName

DoneFailed == pc = "done" /\ ReachedDone /\ failed # <<>>

\* C11 as stated: at DONE with a failed outcome the failure report has exactly
\* one line per FAILED run, naming the run by its runId and giving its URL, and
\* no line for any other run.
C11_AsStated == DoneFailed => ReportsExactlyFailed(failed[1], testRuns, RunIdOf)

\* C11 amended: at DONE with a failed outcome the failure report has exactly
\* one line per FAILED run, naming the run by its friendlyName and giving its
\* URL, and no line for any other run.
C11_ReportNamesFailedRuns ==
  DoneFailed =>
    /\ Len(failed) = 1
    /\ failed[1].kind = "suites-failed"
    /\ ReportsExactlyFailed(failed[1], testRuns, FriendlyNameOf)

C11_Witness ==
  /\ DoneFailed
  /\ Len(testRuns) = 2
  /\ testRuns[1].status = "COMPLETED"
  /\ testRuns[2].status = "FAILED"
  /\ failed[1].lines = <<[name |-> "suite-2", url |-> "https://x/2"]>>

\* ---- C12 --------------------------------------------------------------------
\* the snapshot in hand (if any) has an AGENT_ERROR run and otherwise only
\* COMPLETED runs
AgentErrorsOnly ==
  /\ lastGroup.poll > 0
  /\ HasStatus(testRuns, {"AGENT_ERROR"})
  /\ OnlyStatus(testRuns, {"COMPLETED", "AGENT_ERROR"})

\* C12: a snapshot of AGENT_ERROR runs (with or without COMPLETED runs, no
\* FAILED run) takes the loop to DONE, never to the sleep; the outcome is the
\* success line and no failed mark, and the line notes the ignored agent
\* errors with their number, the number of AGENT_ERROR runs of the snapshot.
C12_AgentErrorsIgnored ==
  AgentErrorsOnly =>
    /\ pc \in {"writingSummary", "done"}
    /\ ReachedDone
    /\ failed = <<>>
    /\ pc = "done" =>
         /\ Len(info) = 1
         /\ info[1].kind = "passed"
         /\ info[1].notesAgentErrors
         /\ info[1].agentErrors =
              Cardinality(IndicesWith(testRuns, {"AGENT_ERROR"}))
         /\ info[1].passed =
              Cardinality(IndicesWith(testRuns, {"COMPLETED"}))

C12_Witness ==
  /\ pc = "done"
  /\ AgentErrorsOnly
  /\ OnlyStatus(testRuns, {"AGENT_ERROR"})
  /\ Len(testRuns) = 2
  /\ info[1].agentErrors = 2

\* ---- C13 --------------------------------------------------------------------
\* operations in flight: the awaited HTTP request or sleep, and summary writes
InFlight ==
  (IF pc \in {"triggering", "polling", "sleeping"} THEN 1 ELSE 0)
    + Len(summaryPending)

\* the snapshot of the cycle in hand is fully processed: logged under the
\* heading of this poll, one line per run, and entered in previousStatuses
CycleProcessed ==
  /\ httpResult = Resolved("poll", Undefined)
  /\ lastGroup.poll = pollRequests
  /\ Len(lastGroup.lines) = Len(testRuns)
  /\ \A i \in DOMAIN testRuns :
       /\ testRuns[i].runId \in DOMAIN previousStatuses
       /\ previousStatuses[testRuns[i].runId] = testRuns[i].status

\* C13: at most one operation is in flight in every state; poll requests are
\* issued one at a time, and every request after the first is issued from the
\* sleep of the preceding cycle, whose response has by then been logged and
\* entered in the previous-status map.
C13_CyclesSequential ==
  [][/\ InFlight' <= 1
     /\ pollRequests' <= pollRequests + 1
     /\ (pollRequests' = pollRequests + 1 /\ pollRequests >= 1)
          => (pc = "sleeping" /\ InFlight = 1 /\ CycleProcessed)]_vars

C13_Witness ==
  /\ pc = "polling"
  /\ pollRequests = 3
  /\ DOMAIN previousStatuses = {"r1", "r2"}
  /\ previousStatuses["r1"] = "QUEUED"
  /\ previousStatuses["r2"] = "RUNNING"

\* ---- C14 --------------------------------------------------------------------
\* a snapshot has been received and processed in the current cycle
SnapshotInHand == lastGroup.poll > 0

\* C14: while a snapshot with a NEEDS_MANUAL_REVIEW run is in hand, that run
\* is counted in the running bucket and logged as RUNNING, and main is in the
\* sleep: DONE is not reached, no table is written or being written, and no
\* failed mark or success line is emitted.
C14_ManualReviewIsNotTerminal ==
  (SnapshotInHand /\ HasStatus(testRuns, {"NEEDS_MANUAL_REVIEW"}))
    => /\ pc = "sleeping"
       /\ ~ReachedDone
       /\ failed = <<>> /\ info = <<>>
       /\ lastGroup.counts.running =
            Cardinality(IndicesWith(testRuns, {"RUNNING", "NEEDS_MANUAL_REVIEW"}))
       /\ \A i \in IndicesWith(testRuns, {"NEEDS_MANUAL_REVIEW"}) :
            /\ lastGroup.lines[i].status = "RUNNING"
            /\ lastGroup.lines[i].link = ""

C14_Witness ==
  /\ pc = "sleeping"
  /\ Len(testRuns) = 2
  /\ testRuns[1].status = "COMPLETED"
  /\ testRuns[2].status = "NEEDS_MANUAL_REVIEW"
  /\ lastGroup.counts.running = 1

\* ---- C15 --------------------------------------------------------------------
\* the per-status counts of a snapshot, from the snapshot alone
CountsOfSnapshot(runs) ==
  [queued |-> Cardinality(IndicesWith(runs, {"QUEUED"})),
   running |-> Cardinality(IndicesWith(runs, {"RUNNING", "NEEDS_MANUAL_REVIEW"})),
   completed |-> Cardinality(IndicesWith(runs, {"COMPLETED"})),
   failed |-> Cardinality(IndicesWith(runs, {"FAILED"})),
   agentError |-> Cardinality(IndicesWith(runs, {"AGENT_ERROR"}))]

\* C15: in every state with a snapshot in hand - whatever the poll count, the
\* previous-status map and the earlier snapshots - the logged counts, the
\* fully-terminal decision and the failed/success outcome are those the
\* snapshot alone determines.
C15_ClassificationBySnapshotOnly ==
  SnapshotInHand =>
    /\ lastGroup.counts = CountsOfSnapshot(testRuns)
    /\ (pc = "sleeping") <=>
         ~OnlyStatus(testRuns, {"COMPLETED", "FAILED", "AGENT_ERROR"})
    /\ (pc # "sleeping") <=> ReachedDone
    /\ pc = "done" => ((failed # <<>>) <=> HasStatus(testRuns, {"FAILED"}))
    /\ pc = "done" => ((info # <<>>) <=> ~HasStatus(testRuns, {"FAILED"}))

\* a second cycle whose snapshot is shorter than, and differs from, what the
\* earlier cycle recorded
C15_Witness ==
  /\ pc = "done"
  /\ lastGroup.poll = 2
  /\ Len(testRuns) = 1
  /\ testRuns[1].status = "COMPLETED"
  /\ DOMAIN previousStatuses = {"r1", "r2"}
  /\ previousStatuses["r2"] = "FAILED"
  /\ info # <<>>

\* ---- C18 --------------------------------------------------------------------
\* C18: a poll response with an empty list of runs takes the loop to DONE:
\* one results table with no data rows, no failed mark, the success line with
\* a passed count of 0, and no poll request after the one it answers.
C18_EmptySnapshotIsDone ==
  (SnapshotInHand /\ testRuns = <<>>)
    => /\ pc \in {"writingSummary", "done"}
       /\ summary \o summaryPending = << <<>> >>
       /\ failed = <<>>
       /\ pollRequests = lastGroup.poll
       /\ pc = "done" =>
            /\ Len(info) = 1
            /\ info[1].kind = "passed"
            /\ info[1].passed = 0
            /\ ~info[1].notesAgentErrors

C18_Witness ==
  /\ pc = "done"
  /\ SnapshotInHand
  /\ testRuns = <<>>
  /\ pollRequests = 2
  /\ summary = << <<>> >>

\* ---- C19 --------------------------------------------------------------------
EnumeratedStatuses ==
  {"QUEUED", "RUNNING", "NEEDS_MANUAL_REVIEW", "COMPLETED", "FAILED",
   "AGENT_ERROR"}

BucketSum(c) == c.queued + c.running + c.completed + c.failed + c.agentError

UnknownInHand ==
  /\ SnapshotInHand
  /\ \E i \in DOMAIN testRuns : testRuns[i].status \notin EnumeratedStatuses

\* C19: the five bucket counts sum to the number of runs with an enumerated
\* status, so to the number of runs only when every status is enumerated;
\* while a snapshot with a run of another status is in hand main is in the
\* sleep, DONE is not reached, and the only steps from there are the next
\* poll request or the timeout.
C19_UnknownStatusIsNeverTerminal ==
  [][/\ SnapshotInHand' =>
          /\ BucketSum(lastGroup'.counts) =
               Cardinality(IndicesWith(testRuns', EnumeratedStatuses))
          /\ (BucketSum(lastGroup'.counts) = Len(testRuns'))
               <=> OnlyStatus(testRuns', EnumeratedStatuses)
     /\ UnknownInHand' =>
          (pc' = "sleeping" /\ ~ReachedDone' /\ failed' = <<>> /\ info' = <<>>)
     /\ UnknownInHand =>
          \/ pc' = "polling" /\ pollRequests' = pollRequests + 1
          \/ /\ pc' = "done"
             /\ now' - startTime > 1200000
             /\ failed' = <<TimeoutMessage>>
             /\ summary' = <<>>]_vars

C19_Witness ==
  /\ TimedOut
  /\ pollRequests = 2
  /\ "r1" \in DOMAIN previousStatuses
  /\ previousStatuses["r1"] = "CANCELLED"

\* ---- C20 --------------------------------------------------------------------
\* C20: the timeout warning is issued only by the step that starts a cycle
\* (the end of a sleep) and only when the elapsed time is strictly greater
\* than the ceiling; a cycle that starts with the elapsed time at or below
\* the ceiling - the first one, and one at the ceiling exactly - issues its
\* poll request, and once the request is issued the cycle ends in the
\* processing of the response or in the poll error, never in the timeout.
C20_StrictTimeoutAtCycleStart ==
  [][/\ warnings' # warnings =>
          /\ pc = "sleeping"
          /\ now' - startTime > 1200000
          /\ pollRequests' = pollRequests
          /\ pc' = "done" /\ failed' = <<TimeoutMessage>>
     /\ (pc = "sleeping" /\ now' - startTime <= 1200000) =>
          (pc' = "polling" /\ pollRequests' = pollRequests + 1
             /\ warnings' = warnings /\ failed' = failed)
     /\ (pc = "triggering" /\ pc' = "polling") =>
          (now' = startTime' /\ pollRequests' = 1 /\ warnings' = warnings)
     /\ pc = "polling" =>
          /\ warnings' = warnings
          /\ pc' \in {"sleeping", "writingSummary", "rejected"}
          /\ pc' # "rejected" => (SnapshotInHand' /\ lastGroup'.poll = pollRequests)]_vars

\* a poll request issued when the elapsed time equals the ceiling exactly
C20_Witness ==
  /\ pc = "polling"
  /\ pollRequests >= 2
  /\ Elapsed = 1200000

\* ---- C16 --------------------------------------------------------------------
\* the status of the run with this id in a snapshot, Undefined when absent
StatusIn(runs, id) ==
  IF \E j \in DOMAIN runs : runs[j].runId = id
  THEN runs[CHOOSE j \in DOMAIN runs : runs[j].runId = id].status
  ELSE Undefined

\* the step in which a poll response is received, logged and recorded
PollProcessedStep == pc = "polling" /\ pc' \in {"sleeping", "writingSummary"}

LoggedLinesFor(lines, t) ==
  {k \in DOMAIN lines : lines[k].name = t.friendlyName}

\* C16 as stated: in every cycle a run of the snapshot is logged iff its status
\* differs from its status in the immediately preceding snapshot (absent
\* there: logged), and afterwards the map holds the observed status of every
\* run of the snapshot.
C16_AsStated ==
  [][PollProcessedStep =>
       \A i \in DOMAIN testRuns' :
         /\ (LoggedLinesFor(lastGroup'.lines, testRuns'[i]) # {})
              <=> (StatusIn(testRuns, testRuns'[i].runId) # testRuns'[i].status)
         /\ MapGet(previousStatuses', testRuns'[i].runId) = testRuns'[i].status
    ]_vars

\* C16, amended: in every cycle exactly one line is logged for a run of the
\* snapshot whose status differs from the status recorded for it in the
\* previous-status map (no record: logged) and none for the other runs; the
\* line shows the new status; afterwards the map holds the observed status
\* of every run of the snapshot and keeps its entries for the runs that are
\* not in the snapshot.
C16_LoggedIffRecordedStatusDiffers ==
  [][PollProcessedStep =>
       /\ \A i \in DOMAIN testRuns' :
            LET t == testRuns'[i]
                logged == LoggedLinesFor(lastGroup'.lines, t)
            IN /\ Cardinality(logged) =
                    (IF MapGet(previousStatuses, t.runId) # t.status
                     THEN 1 ELSE 0)
               /\ \A k \in logged : lastGroup'.lines[k].status = t.status
               /\ MapGet(previousStatuses', t.runId) = t.status
       /\ \A k \in DOMAIN lastGroup'.lines :
            \E i \in DOMAIN testRuns' :
              lastGroup'.lines[k].name = testRuns'[i].friendlyName
       /\ \A id \in DOMAIN previousStatuses :
            StatusIn(testRuns', id) = Undefined
              => MapGet(previousStatuses', id) = previousStatuses[id]
    ]_vars

\* a third cycle in which a run absent from the second snapshot comes back
\* with the status recorded in the first cycle, and is not logged
C16_Witness ==
  /\ pc = "sleeping"
  /\ lastGroup.poll = 3
  /\ Len(testRuns) = 2
  /\ testRuns[1].status = "RUNNING"
  /\ testRuns[2].status = "QUEUED"
  /\ Len(lastGroup.lines) = 1
  /\ lastGroup.lines[1].name = "suite-1"

====
